---- MODULE Spec2Model ----
(***************************************************************************)
(* A model of the iris request router: the Route handler chain and its     *)
(* incremental splicing and the route's paths (src/unnamed/part_000), the  *)
(* Router / RouterDomain dispatch (src/unnamed/part_001), the              *)
(* MemoryRouterCache (src/cache.go) and the mvc ControllerActivator        *)
(* (src/unnamed/part_002).                                                 *)
(*                                                                         *)
(* Five specifications share the module, one per component:                *)
(*   SpecRoute  - NewRoute, use, done, fallback, BuildHandlers             *)
(*   SpecRouter - ServeHTTP, processRequest, find                          *)
(*   SpecCache  - AddItem, GetItem, OnTick, SetMaxItems                    *)
(*                (SpecCacheFair: the same under fair scheduling)          *)
(*   SpecPath   - NewRoute, StaticPath, ResolvePath                        *)
(*   SpecMvc    - Handle, HandleMany, GetRoute, the handler of handlerOf   *)
(* Each one leaves the variables of the other components at their initial  *)
(* values.                                                                 *)
(***************************************************************************)
EXTENDS Integers, Sequences, FiniteSets, TLC

(***************************************************************************)
(* Bounds of the model.                                                    *)
(***************************************************************************)
\* main handlers a route is constructed with: 1..MaxMain
MaxMain == 2
\* handlers passed to one use / done / fallback call: 0..MaxBatch
MaxBatch == 2
\* calls made on one route after NewRoute
MaxOps == 4
\* spare capacity a Go allocation may add beyond the length asked for
MaxSlack == 1
\* trees planted in the garden: 0..MaxTrees
MaxTrees == 2
\* characters of a request path: 0..MaxPathLen
MaxPathLen == 3
\* AddItem, GetItem and OnTick calls made on one cache
MaxCalls == 3
\* segments of a route's path template: 0..MaxSegs
MaxSegs == 2
\* arguments of a ResolvePath call: 0..MaxArgs
MaxArgs == 2
\* Handle and HandleMany calls made on one activator
MaxHandles == 2

(***************************************************************************)
(* Small helpers.                                                          *)
(***************************************************************************)
Min(a, b) == IF a <= b THEN a ELSE b

Max(a, b) == IF a >= b THEN a ELSE b

(***************************************************************************)
(* ROUTE (src/unnamed/part_000)                                            *)
(*                                                                         *)
(* context.Handlers is a Go slice: a window (array, length) on a backing   *)
(* array whose size is the slice's capacity.  Every slice of Route starts  *)
(* at offset 0 of its array.  heap maps an array to its cells; array 0 is  *)
(* the array of the nil slice (no cells).                                  *)
(***************************************************************************)
VARIABLES
    heap,                 \* [ArrIds -> Seq(handler)]: cells of each backing array
    Handlers,             \* Route.Handlers: [arr, len]
    beginHandlers,        \* Route.beginHandlers: [arr, len]
    doneHandlers,         \* Route.doneHandlers: [arr, len]
    beginHandlerIndex,    \* Route.beginHandlerIndex
    fallbackHandlerIndex, \* Route.fallbackHandlerIndex
    isSpecial,            \* Route.isSpecial
    routeFault,           \* a slice expression of the route went out of range
    ret,                  \* what the last BuildHandlers returned (<<>> is nil)
    mainHandlers,         \* history: the handlers given to NewRoute
    nBegin,               \* history: begin handlers passed to use so far
    nFallback,            \* history: fallback handlers passed to fallback so far
    nDone,                \* history: done handlers passed to done so far
    builds,               \* history: BuildHandlers calls so far
    streak,               \* history: BuildHandlers calls since the last other call
    ops,                  \* history: calls made on the route
    lastOp                \* history: the last call and the number of its handlers

routeVars == <<heap, Handlers, beginHandlers, doneHandlers, beginHandlerIndex,
               fallbackHandlerIndex, isSpecial, routeFault, ret, mainHandlers,
               nBegin, nFallback, nDone, builds, streak, ops, lastOp>>

\* the state of one request on its way through the router (src/unnamed/part_001)
VARIABLES
    garden,          \* Router.garden: Seq of [method, hosts, domain, answer]
    PathCorrection,  \* station.options.PathCorrection
    routerType,      \* "Router" or "RouterDomain": whose processRequest runs
    req,             \* ctx.Request: [Method, Host, URL |-> [Scheme, Host, Path]]
    origPath,        \* history: URL.Path of the request as it arrived
    pc,              \* where the request is
    gi,             \* processRequest: i
    reqPath,         \* processRequest: reqPath
    lookups,         \* history: <<tree index, path>> of every GetBranch call
    answer,          \* find: what GetBranch returned
    executed,        \* index of the tree whose chain ctx.Do() ran, 0 if none
    status,          \* status written to the ResponseWriter, 0 if none
    location,        \* Location header, <<>> if not set
    note,            \* the "Moved Permanently" note was written
    notFound,        \* calls of ctx.NotFound()
    errorCalls,      \* calls of the status 500 handler (EmitError / OnPanic)
    faulted,         \* history: a handler of the chain panicked
    result,          \* what processRequest returned
    pooled           \* the context went back to station.pool

routerVars == <<garden, PathCorrection, routerType, req, origPath, pc, gi, reqPath,
                lookups, answer, executed, status, location, note, notFound,
                errorCalls, faulted, result, pooled>>

\* the state of one cache and of the goroutines at work on it (src/cache.go)
VARIABLES
    items,      \* mc.items: [methods that have a bucket -> [urls stored -> context]]
    MaxItems,   \* mc.MaxItems
    mu,         \* mc.mu: 0 when free, otherwise the process that holds it
    procs,      \* [1..MaxCalls -> process]: the goroutines started so far
    calls,      \* history: AddItem, GetItem and OnTick calls so far
    crashed,    \* a goroutine panicked: the program is gone
    hist        \* history, per key: what the calls so far amount to for it:
                \* never added; pending c, stored c: one AddItem of c, before and
                \* after its write; mixed c: AddItem calls with writes under way,
                \* the last one of c; mixed nil: a tick came between; flushed

cacheVars == <<items, MaxItems, mu, procs, calls, crashed, hist>>

\* the state of one route's construction and of the calls that read its paths
\* (src/unnamed/part_000)
VARIABLES
    template,       \* the segments of unparsedPath, as NewRoute is given them
    handlersArg,    \* the handlers NewRoute is given
    route,          \* what NewRoute returned: [err, Src, Path, FormattedPath, Handlers]
    args,           \* the arguments of the last ResolvePath call
    resolved,       \* what the last ResolvePath call returned
    static,         \* what the last StaticPath call returned
    pathOp          \* the last call made: "none", "NewRoute", "ResolvePath", "StaticPath"

pathVars == <<template, handlersArg, route, args, resolved, static, pathOp>>

\* the state of one ControllerActivator, of the router it registers on and of
\* one request served by a controller's handler (src/unnamed/part_002)
VARIABLES
    isBase,       \* isBaseController(c.Type)
    routes,       \* c.routes: [function names -> Seq of routes]
    registered,   \* the routes c.app.Router holds, in the order they were added
    handles,      \* history: Handle and HandleMany calls so far
    mvcCall,      \* history: the last call on the activator and what it found
    mvcRet,       \* what the last call returned
    reqPc,        \* where the request is in the handler of handlerOf
    events,       \* history: what ran for the request, in order
    stoppedBy     \* who stopped the context of the request: "none" if nobody

mvcVars == <<isBase, routes, registered, handles, mvcCall, mvcRet, reqPc, events,
             stoppedBy>>

vars == <<routeVars, routerVars, cacheVars, pathVars, mvcVars>>

\* the arrays a route can hold at one time: Handlers', beginHandlers' and
\* doneHandlers' (0 is the nil slice's)
ArrIds == 0..3

NilArr == 0

\* the zero value of a handler cell
NilHandler == <<"nil", 0>>

\* the k-th handler of a zone; every handler passed in is a distinct function
Handler(zone, k) == <<zone, k>>

\* handlers number from+1 .. from+n of a zone, in order
Batch(zone, from, n) == [i \in 1..n |-> Handler(zone, from + i)]

\* len(s), cap(s) and the elements of slice s
Cap(hp, s) == Len(hp[s.arr])

Elems(hp, s) == SubSeq(hp[s.arr], 1, s.len)

\* a fresh array of c zeroed cells whose first cells hold vals
NewArray(vals, c) == [i \in 1..c |-> IF i <= Len(vals) THEN vals[i] ELSE NilHandler]

\* the cells of an array after vals are stored from offset off on (0-based)
Store(cells, off, vals) ==
    [i \in 1..Len(cells) |->
        IF i > off /\ i <= off + Len(vals) THEN vals[i - off] ELSE cells[i]]

\* Go's append(s, vals...): in place when the capacity suffices, otherwise into
\* a new array a of capacity c (c is the allocator's choice, at least the length)
GoAppend(hp, s, vals, a, c) ==
    IF s.len + Len(vals) <= Cap(hp, s)
    THEN [heap  |-> [hp EXCEPT ![s.arr] = Store(@, s.len, vals)],
          slice |-> [arr |-> s.arr, len |-> s.len + Len(vals)]]
    ELSE [heap  |-> [hp EXCEPT ![a] = NewArray(Elems(hp, s) \o vals, c)],
          slice |-> [arr |-> a, len |-> s.len + Len(vals)]]

\* the capacities an allocation of need cells may get
Caps(need) == need..(need + MaxSlack)

\* Go's copy(s[off:], vals): min(len(s) - off, len(vals)) elements are moved
\* (vals were read before the first store, as memmove does)
GoCopy(hp, s, off, vals) ==
    [hp EXCEPT ![s.arr] = Store(@, off, SubSeq(vals, 1, Min(s.len - off, Len(vals))))]

\* mutant of ResetSlice: the pending buffer is not emptied after a build
ResetSlice_Keep(s) == s

\* s[0:0]
ResetSlice(s) == [s EXCEPT !.len = 0]

\* an array id that none of the given slices uses
FreshArr(used) == CHOOSE a \in ArrIds \ {NilArr} : a \notin used


\* the route as one record, for the operations below
Route == [heap |-> heap, Handlers |-> Handlers, beginHandlers |-> beginHandlers,
          doneHandlers |-> doneHandlers, beginHandlerIndex |-> beginHandlerIndex,
          fallbackHandlerIndex |-> fallbackHandlerIndex, isSpecial |-> isSpecial,
          fault |-> routeFault]

\* NewRoute: the route holds the main handlers, the fallback cursor is set to
\* their number, everything else is Go's zero value
NewRoute(main, c, special) ==
    [heap |-> [a \in ArrIds |-> IF a = 1 THEN NewArray(main, c) ELSE <<>>],
     Handlers |-> [arr |-> 1, len |-> Len(main)],
     beginHandlers |-> [arr |-> NilArr, len |-> 0],
     doneHandlers |-> [arr |-> NilArr, len |-> 0],
     beginHandlerIndex |-> 0,
     fallbackHandlerIndex |-> Len(main),
     isSpecial |-> special,
     fault |-> FALSE]

\* mutant of use: a new batch replaces the pending begin handlers instead of
\* being appended to them
use_Replace(r, handlers, c) ==
    IF Len(handlers) = 0 THEN r
    ELSE [r EXCEPT !.heap = [@ EXCEPT ![FreshArr({r.Handlers.arr, r.doneHandlers.arr})] =
                                 NewArray(handlers, Len(handlers))],
                   !.beginHandlers = [arr |-> FreshArr({r.Handlers.arr, r.doneHandlers.arr}),
                                      len |-> Len(handlers)]]

\* Route.use: r.beginHandlers = append(r.beginHandlers, handlers...)
use(r, handlers, c) ==
    IF Len(handlers) = 0 THEN r
    ELSE LET ap == GoAppend(r.heap, r.beginHandlers, handlers,
                          FreshArr({r.Handlers.arr, r.doneHandlers.arr}), c)
         IN  [r EXCEPT !.heap = ap.heap, !.beginHandlers = ap.slice]

\* Route.done: r.doneHandlers = append(r.doneHandlers, handlers...)
done(r, handlers, c) ==
    IF Len(handlers) = 0 THEN r
    ELSE LET ap == GoAppend(r.heap, r.doneHandlers, handlers,
                          FreshArr({r.Handlers.arr, r.beginHandlers.arr}), c)
         IN  [r EXCEPT !.heap = ap.heap, !.doneHandlers = ap.slice]

\* mutant of fallback: the handlers are appended to the chain and the cursor is
\* advanced, but the tail is not shifted
fallback_Append(r, handlers, c) ==
    IF Len(handlers) = 0 /\ ~r.isSpecial THEN r
    ELSE LET ap == GoAppend(r.heap, r.Handlers, handlers,
                          FreshArr({r.beginHandlers.arr, r.doneHandlers.arr}), c)
         IN  [r EXCEPT !.heap = ap.heap, !.Handlers = ap.slice,
                       !.fallbackHandlerIndex = @ + Len(handlers)]

\* mutant of fallback: the tail that is shifted starts one element behind the
\* cursor
fallback_ShiftLate(r, handlers, c) ==
    IF Len(handlers) = 0 /\ ~r.isSpecial THEN r
    ELSE
      LET ap    == GoAppend(r.heap, r.Handlers, handlers,
                          FreshArr({r.beginHandlers.arr, r.doneHandlers.arr}), c)
          h     == ap.slice
          start == r.fallbackHandlerIndex
          idx   == start + Len(handlers)
          hp1   == GoCopy(ap.heap, h, idx, SubSeq(ap.heap[h.arr], start + 2, h.len))
          hp2   == GoCopy(hp1, h, start, handlers)
      IN  IF h.len = r.fallbackHandlerIndex
          THEN [r EXCEPT !.heap = ap.heap, !.Handlers = h]
          ELSE [r EXCEPT !.heap = hp2, !.Handlers = h,
                         !.fallbackHandlerIndex = idx]

\* Route.fallback: append, then shift the tail right and store the handlers at
\* the cursor
fallback(r, handlers, c) ==
    IF Len(handlers) = 0 /\ ~r.isSpecial THEN r
    ELSE
      LET ap    == GoAppend(r.heap, r.Handlers, handlers,
                          FreshArr({r.beginHandlers.arr, r.doneHandlers.arr}), c)
          h     == ap.slice
          start == r.fallbackHandlerIndex
          idx   == start + Len(handlers)
          \* copy(r.Handlers[idx:], r.Handlers[start:])
          hp1   == GoCopy(ap.heap, h, idx, SubSeq(ap.heap[h.arr], start + 1, h.len))
          \* copy(r.Handlers[start:], handlers)
          hp2   == GoCopy(hp1, h, start, handlers)
      IN  IF h.len = r.fallbackHandlerIndex
          THEN [r EXCEPT !.heap = ap.heap, !.Handlers = h]
          ELSE IF idx > h.len \/ start > h.len
          THEN [r EXCEPT !.heap = ap.heap, !.Handlers = h,
                         !.fallbackHandlerIndex = idx, !.fault = TRUE]
          ELSE [r EXCEPT !.heap = hp2, !.Handlers = h,
                         !.fallbackHandlerIndex = idx]

\* BuildHandlers, first half: the pending begin handlers are prepended, the
\* begin handlers of earlier builds are moved back to the head and the new ones
\* stored behind them
BuildBegin(r, c) ==
    LET count == r.beginHandlers.len
        ap    == GoAppend(r.heap, r.beginHandlers, Elems(r.heap, r.Handlers),
                        FreshArr({r.beginHandlers.arr, r.doneHandlers.arr}), c)
        h     == ap.slice
        start == r.beginHandlerIndex
        bhi   == start + count
        \* copy(r.Handlers, r.Handlers[beginHandlerCount:r.beginHandlerIndex])
        hp1   == GoCopy(ap.heap, h, 0, SubSeq(ap.heap[h.arr], count + 1, bhi))
        \* copy(r.Handlers[start:], r.beginHandlers)
        hp2   == GoCopy(hp1, h, start, Elems(hp1, r.beginHandlers))
        r1    == [r EXCEPT !.fallbackHandlerIndex = @ + count,
                           !.heap = ap.heap, !.Handlers = h,
                           !.beginHandlerIndex = bhi]
    IN  IF count = 0 THEN r
        ELSE IF start = 0
        THEN [r1 EXCEPT !.beginHandlers = ResetSlice(@)]
        ELSE IF bhi > Cap(ap.heap, h) \/ start > h.len
        THEN [r1 EXCEPT !.fault = TRUE]
        ELSE [r1 EXCEPT !.heap = hp2, !.beginHandlers = ResetSlice(@)]

\* BuildHandlers, second half: the pending done handlers are appended
BuildDone(r, c) ==
    LET ap == GoAppend(r.heap, r.Handlers, Elems(r.heap, r.doneHandlers),
                     FreshArr({r.beginHandlers.arr, r.doneHandlers.arr}), c)
    IN  IF r.doneHandlers.len = 0 \/ r.fault THEN r
        ELSE [r EXCEPT !.heap = ap.heap, !.Handlers = ap.slice,
                       !.doneHandlers = ResetSlice(@)]

\* BuildHandlers
BuildHandlers(r, c1, c2) == BuildDone(BuildBegin(r, c1), c2)

\* what BuildHandlers returns: r.Handlers, or nil when it is empty
BuildResult(r) == IF r.Handlers.len = 0 THEN <<>> ELSE Elems(r.heap, r.Handlers)

\* the capacities the allocator may choose from when n more elements are
\* appended to slice s: no allocation happens while the capacity suffices
CapChoices(hp, s, n) ==
    IF s.len + n <= Cap(hp, s) THEN {Cap(hp, s)} ELSE Caps(s.len + n)

\* the route r becomes the state.  Array ids carry no meaning, so they are
\* renamed: 1 is the array of Handlers, 2 the array of beginHandlers unless it
\* is the array of Handlers, 3 the array of doneHandlers; arrays that no slice
\* of the route refers to any more are dropped
Becomes(r) ==
    LET hA == r.Handlers.arr
        bA == r.beginHandlers.arr
        dA == r.doneHandlers.arr
    IN  /\ heap' = [a \in ArrIds |->
                      CASE a = 1 /\ hA # NilArr -> r.heap[hA]
                        [] a = 2 /\ bA # NilArr /\ bA # hA -> r.heap[bA]
                        [] a = 3 /\ dA # NilArr -> r.heap[dA]
                        [] OTHER -> <<>>]
        /\ Handlers' = [arr |-> IF hA = NilArr THEN NilArr ELSE 1, len |-> r.Handlers.len]
        /\ beginHandlers' = [arr |-> IF bA = NilArr THEN NilArr
                                     ELSE IF bA = hA THEN 1 ELSE 2,
                             len |-> r.beginHandlers.len]
        /\ doneHandlers' = [arr |-> IF dA = NilArr THEN NilArr ELSE 3,
                            len |-> r.doneHandlers.len]
        /\ beginHandlerIndex' = r.beginHandlerIndex
        /\ fallbackHandlerIndex' = r.fallbackHandlerIndex
        /\ isSpecial' = r.isSpecial
        /\ routeFault' = r.fault

(***************************************************************************)
(* The route's specification: NewRoute, then any calls of use, done,       *)
(* fallback and BuildHandlers.                                             *)
(***************************************************************************)
RouteInit ==
    /\ \E n \in 1..MaxMain, special \in BOOLEAN :
         \E c \in Caps(n) :
            LET r == NewRoute(Batch("m", 0, n), c, special)
            IN  /\ heap = r.heap
                /\ Handlers = r.Handlers
                /\ beginHandlers = r.beginHandlers
                /\ doneHandlers = r.doneHandlers
                /\ beginHandlerIndex = r.beginHandlerIndex
                /\ fallbackHandlerIndex = r.fallbackHandlerIndex
                /\ isSpecial = r.isSpecial
                /\ routeFault = r.fault
                /\ mainHandlers = Batch("m", 0, n)
                /\ lastOp = <<"NewRoute", n>>
    /\ ret = <<>>
    /\ nBegin = 0
    /\ nFallback = 0
    /\ nDone = 0
    /\ builds = 0
    /\ streak = 0
    /\ ops = 0

CallUse ==
    /\ ~routeFault
    /\ ops < MaxOps
    /\ \E n \in 0..MaxBatch :
         \E c \in CapChoices(heap, beginHandlers, n) :
            /\ Becomes(use(Route, Batch("b", nBegin, n), c))
            /\ nBegin' = nBegin + n
            /\ lastOp' = <<"use", n>>
    /\ streak' = 0
    /\ ops' = ops + 1
    /\ UNCHANGED <<ret, mainHandlers, nFallback, nDone, builds>>
    /\ UNCHANGED <<routerVars, cacheVars, pathVars, mvcVars>>

CallDone ==
    /\ ~routeFault
    /\ ops < MaxOps
    /\ \E n \in 0..MaxBatch :
         \E c \in CapChoices(heap, doneHandlers, n) :
            /\ Becomes(done(Route, Batch("d", nDone, n), c))
            /\ nDone' = nDone + n
            /\ lastOp' = <<"done", n>>
    /\ streak' = 0
    /\ ops' = ops + 1
    /\ UNCHANGED <<ret, mainHandlers, nBegin, nFallback, builds>>
    /\ UNCHANGED <<routerVars, cacheVars, pathVars, mvcVars>>

CallFallback ==
    /\ ~routeFault
    /\ ops < MaxOps
    /\ \E n \in 0..MaxBatch :
         \E c \in CapChoices(heap, Handlers, n) :
            /\ Becomes(fallback(Route, Batch("f", nFallback, n), c))
            /\ nFallback' = nFallback + n
            /\ lastOp' = <<"fallback", n>>
    /\ streak' = 0
    /\ ops' = ops + 1
    /\ UNCHANGED <<ret, mainHandlers, nBegin, nDone, builds>>
    /\ UNCHANGED <<routerVars, cacheVars, pathVars, mvcVars>>

CallBuildHandlers ==
    /\ ~routeFault
    /\ ops < MaxOps
    /\ \E c1 \in CapChoices(heap, beginHandlers, Handlers.len) :
         \E c2 \in CapChoices(BuildBegin(Route, c1).heap, BuildBegin(Route, c1).Handlers,
                              doneHandlers.len) :
            LET r == BuildHandlers(Route, c1, c2)
            IN  /\ Becomes(r)
                /\ ret' = IF r.fault THEN ret ELSE BuildResult(r)
    /\ builds' = builds + 1
    /\ lastOp' = <<"BuildHandlers", 0>>
    /\ streak' = streak + 1
    /\ ops' = ops + 1
    /\ UNCHANGED <<mainHandlers, nBegin, nFallback, nDone>>
    /\ UNCHANGED <<routerVars, cacheVars, pathVars, mvcVars>>

RouteNext == CallUse \/ CallDone \/ CallFallback \/ CallBuildHandlers


(***************************************************************************)
(* Claims about the route.                                                 *)
(***************************************************************************)
\* the chain the ordering rule asks for: every begin handler in add-order, the
\* main handlers, every fallback handler in add-order, every done handler in
\* add-order
ExpectedChain ==
    Batch("b", 0, nBegin) \o mainHandlers \o Batch("f", 0, nFallback)
        \o Batch("d", 0, nDone)

\* the last call on the route was BuildHandlers and it returned
JustBuilt == streak >= 1 /\ ~routeFault

\* C1: the first BuildHandlers, after any interleaving of use, fallback and
\* done calls, returns the begin handlers in add-order, then the main handlers,
\* then the fallback handlers in add-order, then the done handlers in add-order.
C1_FirstBuildOrder ==
    (JustBuilt /\ builds = 1) => ret = ExpectedChain

\* C1 witness: a first build after two begin batches, a fallback and a done call
C1_Witness ==
    /\ JustBuilt /\ builds = 1
    /\ nBegin >= 2 /\ nFallback >= 1 /\ nDone >= 1 /\ Len(mainHandlers) = 2
    /\ ret = ExpectedChain

\* C2: every BuildHandlers, in every build epoch, returns every begin handler
\* ever added in add-order, the main handlers, every fallback handler and every
\* done handler in add-order: nothing lost, duplicated or overwritten.
C2_RebuildOrder ==
    JustBuilt => ret = ExpectedChain

\* C3: a BuildHandlers call that directly follows another BuildHandlers call
\* returns the same chain and leaves Handlers and both cursors unchanged.
C3_BuildIdempotent ==
    [][(streak >= 1 /\ streak' = streak + 1) =>
          /\ ret' = ret
          /\ Elems(heap', Handlers') = Elems(heap, Handlers)
          /\ beginHandlerIndex' = beginHandlerIndex
          /\ fallbackHandlerIndex' = fallbackHandlerIndex
          /\ ~routeFault']_routeVars

\* C3 witness: two BuildHandlers calls in a row on a route with begin and done
\* handlers
C3_Witness ==
    /\ streak >= 2 /\ ~routeFault
    /\ nBegin >= 1 /\ nDone >= 1
    /\ Len(ret) >= 3


\* the chain of the route: the elements of Handlers
Chain == Elems(heap, Handlers)

\* the step is a call of op with n handlers
Called(op, n) == ops' = ops + 1 /\ lastOp' = <<op, n>>

\* C21: fallback with n > 0 handlers stores them, in order, at index
\* fallbackHandlerIndex of the chain and advances fallbackHandlerIndex by n:
\* what was before the cursor stays where it was, what was at or after the
\* cursor moves n places to the right in its order, and beginHandlerIndex
\* stays as it was.
C21_FallbackSplice ==
    [][\A n \in 1..MaxBatch :
          Called("fallback", n) =>
             /\ ~routeFault'
             /\ fallbackHandlerIndex <= Len(Chain)
             /\ Elems(heap', Handlers') =
                    SubSeq(Chain, 1, fallbackHandlerIndex)
                        \o Batch("f", nFallback, n)
                        \o SubSeq(Chain, fallbackHandlerIndex + 1, Len(Chain))
             /\ fallbackHandlerIndex' = fallbackHandlerIndex + n
             /\ beginHandlerIndex' = beginHandlerIndex]_routeVars

\* C21 witness: fallback handlers were stored before done handlers that a
\* build had appended, on a route with begin handlers
C21_Witness ==
    /\ lastOp[1] = "fallback" /\ lastOp[2] >= 1
    /\ ~routeFault
    /\ builds >= 1 /\ nDone >= 1 /\ beginHandlerIndex >= 1
    /\ fallbackHandlerIndex < Handlers.len

\* C22: fallback with no handlers leaves the chain, fallbackHandlerIndex and
\* beginHandlerIndex as they were, on a route that is not special (it returns
\* at once) and on a special route (the splice is made with no element), in
\* every reachable state of the route.
C22_EmptyFallback ==
    [][Called("fallback", 0) =>
          /\ ~routeFault'
          /\ Elems(heap', Handlers') = Chain
          /\ Handlers'.len = Handlers.len
          /\ fallbackHandlerIndex' = fallbackHandlerIndex
          /\ beginHandlerIndex' = beginHandlerIndex]_routeVars

\* C22 witness: fallback was called with no handlers on a special route whose
\* chain has two done handlers or more behind the cursor
C22_Witness ==
    /\ lastOp = <<"fallback", 0>>
    /\ isSpecial
    /\ ~routeFault
    /\ fallbackHandlerIndex + 2 <= Handlers.len

\* the pending begin handlers and the pending done handlers
PendingBegin == Elems(heap, beginHandlers)

PendingDone == Elems(heap, doneHandlers)

\* C23: use and done change the pending buffers only: the elements and the
\* length of the chain and both cursors stay as they were, after an earlier
\* BuildHandlers too; with no handlers they change nothing at all; and
\* BuildHandlers leaves both pending buffers empty.
C23_PendingOnly ==
    [][/\ \A n \in 0..MaxBatch :
            (Called("use", n) \/ Called("done", n)) =>
               /\ Elems(heap', Handlers') = Chain
               /\ beginHandlerIndex' = beginHandlerIndex
               /\ fallbackHandlerIndex' = fallbackHandlerIndex
               /\ n = 0 => /\ Elems(heap', beginHandlers') = PendingBegin
                           /\ Elems(heap', doneHandlers') = PendingDone
       /\ Called("BuildHandlers", 0) =>
               /\ beginHandlers'.len = 0
               /\ doneHandlers'.len = 0]_routeVars

\* C27: in every state reached from NewRoute by use, done, fallback and
\* BuildHandlers, 0 <= beginHandlerIndex <= fallbackHandlerIndex <=
\* len(Handlers); beginHandlerIndex is the number of begin handlers merged into
\* the chain, and Handlers[beginHandlerIndex:fallbackHandlerIndex] is the main
\* handlers followed by the fallback handlers added so far.
C27_Cursors ==
    ~routeFault =>
        /\ 0 <= beginHandlerIndex
        /\ beginHandlerIndex <= fallbackHandlerIndex
        /\ fallbackHandlerIndex <= Handlers.len
        /\ beginHandlerIndex = nBegin - beginHandlers.len
        /\ SubSeq(Chain, beginHandlerIndex + 1, fallbackHandlerIndex)
               = mainHandlers \o Batch("f", 0, nFallback)

(***************************************************************************)
(* ROUTER (src/unnamed/part_001)                                           *)
(*                                                                         *)
(* One request is served by a router whose garden and options were fixed   *)
(* at build time.  Strings are sequences of one-character strings.         *)
(***************************************************************************)
\* HTTPMethods.GET and another method
MethodGET == "GET"

Methods == {MethodGET, "POST"}

\* the hosts a request may name, and the domain host-scoped trees are planted for
Hosts == {<<"h">>, <<"g">>}

Domains == {<<"h">>}

PathChars == {"/", "a"}

\* the paths a request may carry: empty, or rooted.  A path that starts with
\* two slashes is left out: url.URL.String writes it differently from one Go
\* release to the next
ReqPaths ==
    {p \in UNION {[1..k -> PathChars] : k \in 0..MaxPathLen} :
        p = <<>> \/ (p[1] = "/" /\ (Len(p) >= 2 => p[2] # "/"))}

\* the request is sent in origin form (GET /a) or in absolute form
\* (GET s://h/a): ReadRequest fills URL.Scheme and URL.Host only for the latter
ReqURLs ==
    {[Scheme |-> <<>>, Host |-> <<>>, Path |-> p] : p \in ReqPaths}
    \cup {[Scheme |-> <<"s">>, Host |-> <<"h">>, Path |-> p] : p \in ReqPaths}

\* what a trie lookup reports
Answers == {"chain", "mustRedirect", "none"}

\* a tree of the garden.  answer is what its trie reports for the key this
\* request belongs under
Trees ==
    {[method |-> m, hosts |-> FALSE, domain |-> <<>>, answer |-> a] :
        m \in Methods, a \in Answers}
    \cup {[method |-> m, hosts |-> TRUE, domain |-> d, answer |-> a] :
        m \in Methods, d \in Domains, a \in Answers}

TreeKey(t) == <<t.method, t.hosts, t.domain>>

\* the garden holds one tree per distinct (method, host)
Gardens ==
    {g \in UNION {[1..k -> Trees] : k \in 0..MaxTrees} :
        \A i, j \in 1..Len(g) : i # j => TreeKey(g[i]) # TreeKey(g[j])}

\* strings.HasSuffix(s, "/")
HasSlashSuffix(s) == Len(s) > 0 /\ s[Len(s)] = "/"

\* path.Clean on a string without "." elements: slashes are collapsed, a
\* trailing slash is dropped, the empty result is "/" when rooted, "." otherwise
RECURSIVE CleanFrom(_, _, _, _)
CleanFrom(path, r, out, rooted) ==
    IF r > Len(path) THEN (IF out = <<>> THEN <<".">> ELSE out)
    ELSE IF path[r] = "/" THEN CleanFrom(path, r + 1, out, rooted)
    ELSE LET sep == IF (rooted /\ Len(out) # 1) \/ (~rooted /\ Len(out) # 0)
                    THEN <<"/">> ELSE <<>>
             \* the element runs up to the next slash
             stop == IF \E k \in r..Len(path) : path[k] = "/"
                     THEN CHOOSE k \in r..Len(path) :
                             path[k] = "/" /\ \A j \in r..(k - 1) : path[j] # "/"
                     ELSE Len(path) + 1
         IN  CleanFrom(path, stop, out \o sep \o SubSeq(path, r, stop - 1), rooted)

PathClean(path) ==
    IF path = <<>> THEN <<".">>
    ELSE IF path[1] = "/" THEN CleanFrom(path, 2, <<"/">>, TRUE)
    ELSE CleanFrom(path, 1, <<>>, FALSE)

\* url.URL.String for a URL of scheme, host and path (no escaping is needed
\* for the characters of PathChars)
URLString(u) ==
    (IF u.Scheme # <<>> THEN u.Scheme \o <<":">> ELSE <<>>)
    \o (IF (u.Scheme # <<>> \/ u.Host # <<>>) /\ (u.Host # <<>> \/ u.Path # <<>>)
        THEN <<"/", "/">> \o u.Host ELSE <<>>)
    \o (IF u.Path # <<>> /\ u.Path[1] # "/" /\ u.Host # <<>> THEN <<"/">> ELSE <<>>)
    \o u.Path

\* index of the first "/" of s at or after position from, Len(s) + 1 if none
SlashAt(s, from) ==
    IF \E k \in from..Len(s) : s[k] = "/"
    THEN CHOOSE k \in from..Len(s) : s[k] = "/" /\ \A j \in from..(k - 1) : s[j] # "/"
    ELSE Len(s) + 1

\* url.Parse: the scheme is the run of letters before the first ":", the host
\* what follows "//" up to the next "/", the path the rest
URLParse(s) ==
    LET colon  == IF \E k \in 1..Len(s) : s[k] = ":"
                  THEN CHOOSE k \in 1..Len(s) : s[k] = ":" /\ \A j \in 1..(k - 1) : s[j] # ":"
                  ELSE 0
        \* getScheme: a "/" before the colon means there is no scheme
        scheme == IF colon > 1 /\ \A j \in 1..(colon - 1) : s[j] # "/"
                  THEN SubSeq(s, 1, colon - 1) ELSE <<>>
        rest   == IF scheme # <<>> THEN SubSeq(s, colon + 1, Len(s)) ELSE s
        auth   == Len(rest) >= 2 /\ rest[1] = "/" /\ rest[2] = "/"
                    /\ (scheme # <<>> \/ ~(Len(rest) >= 3 /\ rest[3] = "/"))
        stop   == SlashAt(rest, 3)
    IN  IF colon = 1 THEN [ok |-> FALSE, Scheme |-> <<>>, Host |-> <<>>, Path |-> <<>>]
        ELSE IF scheme = <<>> /\ rest # <<>> /\ rest[1] # "/"
                 /\ \E k \in 1..(SlashAt(rest, 1) - 1) : rest[k] = ":"
        THEN [ok |-> FALSE, Scheme |-> <<>>, Host |-> <<>>, Path |-> <<>>]
        ELSE IF auth
        THEN [ok |-> TRUE, Scheme |-> scheme, Host |-> SubSeq(rest, 3, stop - 1),
              Path |-> SubSeq(rest, stop, Len(rest))]
        ELSE [ok |-> TRUE, Scheme |-> scheme, Host |-> <<>>, Path |-> rest]


\* the key a tree's trie holds this request under: host-scoped trees are
\* planted with the domain in front of the path
ProperKey(t) == IF t.hosts THEN t.domain \o origPath ELSE origPath

\* rootBranch.GetBranch: a chain, the mustRedirect signal, or nothing.  Under
\* any other key than the request's own the trie holds nothing
GetBranch(t, path) == IF path = ProperKey(t) THEN t.answer ELSE "none"

\* find, lines 149-161: the trailing slash of the request path is toggled; the
\* index path and the empty path become "/"
CorrectedPath(path) ==
    IF Len(path) <= 1 THEN <<"/">>
    ELSE IF path[Len(path)] = "/" THEN SubSeq(path, 1, Len(path) - 1)
    ELSE path \o <<"/">>

\* find, lines 163-177: the URL to redirect to, cleaned when it has neither
\* scheme nor host
RedirectURL(url) ==
    LET s == URLString(url)
        u == URLParse(s)
        cleaned == PathClean(s)
    IN  IF u.Scheme = <<>> /\ u.Host = <<>>
        THEN (IF HasSlashSuffix(s) /\ ~HasSlashSuffix(cleaned)
              THEN cleaned \o <<"/">> ELSE cleaned)
        ELSE s

\* Router.find, up to the call of ctx.Do(): what it does with the lookup of
\* path in tree t, and the request URL it leaves behind
find(t, path, url, correction) ==
    LET ans == GetBranch(t, path)
        u2  == [url EXCEPT !.Path = CorrectedPath(url.Path)]
    IN  IF ans = "chain"
        THEN [kind |-> "do", url |-> url, location |-> <<>>, note |-> FALSE]
        ELSE IF ans = "mustRedirect" /\ correction /\ URLParse(URLString(u2)).ok
        THEN [kind |-> "redirect", url |-> u2, location |-> RedirectURL(u2),
              note |-> (t.method = MethodGET)]
        ELSE [kind |-> "notfound",
              url |-> IF ans = "mustRedirect" /\ correction THEN u2 ELSE url,
              location |-> <<>>, note |-> FALSE]

\* ctx.NotFound(): the status 404 handler runs
NotFound ==
    /\ notFound' = notFound + 1
    /\ status' = 404

RouterInit ==
    /\ routerType \in {"Router", "RouterDomain"}
    /\ garden \in Gardens
    \* a router that is not domain aware holds no host-scoped tree
    /\ routerType = "Router" => \A i \in 1..Len(garden) : ~garden[i].hosts
    /\ PathCorrection \in BOOLEAN
    /\ req = [Method |-> MethodGET, Host |-> <<>>,
              URL |-> [Scheme |-> <<>>, Host |-> <<>>, Path |-> <<>>]]
    /\ origPath = <<>>
    /\ pc = "idle"
    /\ gi = 1
    /\ reqPath = <<>>
    /\ lookups = <<>>
    /\ answer = "n/a"
    /\ executed = 0
    /\ status = 0
    /\ location = <<>>
    /\ note = FALSE
    /\ notFound = 0
    /\ errorCalls = 0
    /\ faulted = FALSE
    /\ result = "n/a"
    /\ pooled = FALSE

\* ServeHTTP, up to the call of processRequest: a request arrives, the context
\* is taken from the pool and reset; processRequest reads reqPath
ServeHTTP ==
    /\ pc = "idle"
    /\ \E m \in Methods, h \in Hosts, u \in ReqURLs :
         /\ req' = [Method |-> m, Host |-> h, URL |-> u]
         /\ origPath' = u.Path
         /\ reqPath' = u.Path
    /\ gi' = 1
    /\ pc' = "processRequest"
    /\ UNCHANGED <<garden, PathCorrection, routerType, lookups, answer, executed,
                   status, location, note, notFound, errorCalls, faulted, result, pooled>>
    /\ UNCHANGED <<routeVars, cacheVars, pathVars, mvcVars>>

\* mutant of Router.processRequest: after the loop it returns false without
\* the call of ctx.NotFound()
RouterProcessRequest_Silent ==
    /\ pc = "processRequest"
    /\ routerType = "Router"
    /\ IF gi > Len(garden)
       THEN /\ result' = "false"
            /\ pc' = "Put"
            /\ UNCHANGED gi
       ELSE IF garden[gi].method = req.Method
       THEN /\ pc' = "find"
            /\ UNCHANGED <<gi, result>>
       ELSE /\ gi' = gi + 1
            /\ UNCHANGED <<pc, result>>
    /\ UNCHANGED <<garden, PathCorrection, routerType, req, origPath, reqPath, lookups,
                   answer, executed, location, note, errorCalls, faulted, pooled,
                   notFound, status>>
    /\ UNCHANGED <<routeVars, cacheVars, pathVars, mvcVars>>

\* Router.processRequest: one turn of the loop over the garden, or the
\* NotFound after it
RouterProcessRequest ==
    /\ pc = "processRequest"
    /\ routerType = "Router"
    /\ IF gi > Len(garden)
       THEN /\ NotFound
            /\ result' = "false"
            /\ pc' = "Put"
            /\ UNCHANGED gi
       ELSE IF garden[gi].method = req.Method
       THEN /\ pc' = "find"
            /\ UNCHANGED <<gi, notFound, status, result>>
       ELSE /\ gi' = gi + 1
            /\ UNCHANGED <<pc, notFound, status, result>>
    /\ UNCHANGED <<garden, PathCorrection, routerType, req, origPath, reqPath, lookups,
                   answer, executed, location, note, errorCalls, faulted, pooled>>
    /\ UNCHANGED <<routeVars, cacheVars, pathVars, mvcVars>>

\* RouterDomain.processRequest: one turn of the loop over the garden, or the
\* NotFound after it
DomainProcessRequest ==
    /\ pc = "processRequest"
    /\ routerType = "RouterDomain"
    /\ IF gi > Len(garden)
       THEN /\ NotFound
            /\ result' = "false"
            /\ pc' = "Put"
            /\ UNCHANGED <<gi, reqPath>>
       ELSE IF garden[gi].hosts /\ garden[gi].domain # req.Host
       THEN /\ gi' = gi + 1
            /\ UNCHANGED <<pc, reqPath, notFound, status, result>>
       ELSE /\ reqPath' = IF garden[gi].hosts THEN req.Host \o reqPath ELSE reqPath
            /\ IF garden[gi].method = req.Method
               THEN pc' = "find" /\ UNCHANGED gi
               ELSE gi' = gi + 1 /\ UNCHANGED pc
            /\ UNCHANGED <<notFound, status, result>>
    /\ UNCHANGED <<garden, PathCorrection, routerType, req, origPath, lookups,
                   answer, executed, location, note, errorCalls, faulted, pooled>>
    /\ UNCHANGED <<routeVars, cacheVars, pathVars, mvcVars>>

\* Router.find on tree gi, and the return of processRequest.  A handler of the
\* chain may panic: nothing on the way out of find, processRequest and ServeHTTP
\* recovers, so the panic leaves ServeHTTP
Find ==
    /\ pc = "find"
    /\ LET t == garden[gi]
           f == find(t, reqPath, req.URL, PathCorrection)
       IN  /\ lookups' = Append(lookups, <<gi, reqPath>>)
           /\ answer' = GetBranch(t, reqPath)
           /\ req' = [req EXCEPT !.URL = f.url]
           /\ location' = f.location
           /\ note' = f.note
           /\ CASE f.kind = "do" ->
                     /\ executed' = gi
                     /\ \E panics \in BOOLEAN :
                          /\ faulted' = panics
                          /\ IF panics
                             THEN pc' = "panicked" /\ UNCHANGED result
                             ELSE pc' = "Put" /\ result' = "true"
                     /\ UNCHANGED <<status, notFound>>
                [] f.kind = "redirect" ->
                     /\ status' = 301
                     /\ result' = "false"
                     /\ pc' = "Put"
                     /\ UNCHANGED <<executed, notFound, faulted>>
                [] OTHER ->
                     /\ NotFound
                     /\ result' = "false"
                     /\ pc' = "Put"
                     /\ UNCHANGED <<executed, faulted>>
    /\ UNCHANGED <<garden, PathCorrection, routerType, origPath, gi, reqPath,
                   errorCalls, pooled>>
    /\ UNCHANGED <<routeVars, cacheVars, pathVars, mvcVars>>

\* ServeHTTP after processRequest: the context goes back to the pool
PoolPut ==
    /\ pc = "Put"
    /\ pooled' = TRUE
    /\ pc' = "returned"
    /\ UNCHANGED <<garden, PathCorrection, routerType, req, origPath, gi, reqPath,
                   lookups, answer, executed, status, location, note, notFound,
                   errorCalls, faulted, result>>
    /\ UNCHANGED <<routeVars, cacheVars, pathVars, mvcVars>>

RouterNext ==
    ServeHTTP \/ RouterProcessRequest \/ DomainProcessRequest \/ Find \/ PoolPut


(***************************************************************************)
(* CACHE (src/cache.go)                                                    *)
(*                                                                         *)
(* AddItem starts a goroutine; GetItem and OnTick run in the goroutine of  *)
(* their caller; SetMaxItems writes MaxItems without the mutex.  Every     *)
(* goroutine is a process: it takes the mutex, does its work on items and  *)
(* releases the mutex, one step each.                                      *)
(***************************************************************************)
\* HTTPMethods.ANY, the methods resetBag makes a bucket for (two of them), and
\* the methods a request may carry: those, and one that is not predefined
AnyMethods == {"GET", "POST"}

CacheMethods == AnyMethods \cup {"PURGE"}

CacheURLs == {"/x", "/y"}

\* the contexts handed to AddItem; a nil *Context is what GetItem returns for absent
NilCtx == "nil"

Contexts == {"c1", "c2"}

\* the keys the calls name: a method that is not predefined has no bucket
\* whatever the url, so one url stands for all
CacheKeys == (AnyMethods \X CacheURLs) \cup {<<"PURGE", "/x">>}

\* the values SetMaxItems is called with
Limits == {0, 1, 2}

\* make(map[string]*Context, 0), and make(map[string]map[string]*Context)
EmptyMap == [u \in {} |-> NilCtx]

\* a slot of procs that no goroutine uses
NoProc == [kind |-> "none"]

\* mutant of resetBag: the bucket of one method is left as it is
resetBag_SkipOne(its) ==
    [m \in (DOMAIN its) \cup AnyMethods |->
        IF m \in AnyMethods /\ (m # "GET" \/ m \notin DOMAIN its) THEN EmptyMap
        ELSE its[m]]

\* resetBag: every method of HTTPMethods.ANY gets a new, empty map
resetBag(its) ==
    [m \in (DOMAIN its) \cup AnyMethods |-> IF m \in AnyMethods THEN EmptyMap ELSE its[m]]

\* NewMemoryRouterCache: an empty map of maps, then resetBag
NewMemoryRouterCache == resetBag(EmptyMap)

\* mc.items[method][url]: reading a missing bucket or a missing url gives nil
Lookup(its, method, url) ==
    IF method \in DOMAIN its /\ url \in DOMAIN its[method] THEN its[method][url]
    ELSE NilCtx

\* mutant of StoreItem: the write is lost
StoreItem_Lost(its, method, url, context) == its

\* mc.items[method][url] = context, for a method that has a bucket
StoreItem(its, method, url, context) ==
    [its EXCEPT ![method] =
        [u \in (DOMAIN @) \cup {url} |-> IF u = url THEN context ELSE @[u]]]

\* len(v) of a bucket
BucketLen(its, method) == Cardinality(DOMAIN its[method])

\* mc.items[k] = make(map[string]*Context, 0)
ClearBucket(its, method) == [its EXCEPT ![method] = EmptyMap]

\* contexts, urls and predefined methods are interchangeable names: while the
\* cache and its goroutines hold none, the next call names the first of them
UntouchedCache ==
    /\ \A p \in DOMAIN procs : procs[p].kind \in {"none", "ticker"}
    /\ \A m \in DOMAIN items : DOMAIN items[m] = {}
    /\ \A k \in CacheKeys : hist[k][1] = "never"

ContextArgs == IF UntouchedCache THEN {"c1"} ELSE Contexts

KeyArgs == IF UntouchedCache THEN {<<"GET", "/x">>, <<"PURGE", "/x">>} ELSE CacheKeys

\* the writer goroutines that have not stored yet, for one key
PendingWriters(key) ==
    {p \in DOMAIN procs : /\ procs[p].kind = "writer"
                          /\ procs[p].pc \in {"lock", "store"}
                          /\ <<procs[p].method, procs[p].url>> = key}

CacheInit ==
    /\ items = NewMemoryRouterCache
    /\ MaxItems = 0
    /\ mu = 0
    /\ procs = [p \in 1..MaxCalls |-> NoProc]
    /\ calls = 0
    /\ crashed = FALSE
    /\ hist = [k \in CacheKeys |-> <<"never", NilCtx>>]

\* SetMaxItems
SetMaxItems ==
    /\ ~crashed
    /\ \E n \in Limits : MaxItems' = n
    /\ UNCHANGED <<items, mu, procs, calls, crashed, hist>>
    /\ UNCHANGED <<routeVars, routerVars, pathVars, mvcVars>>

\* AddItem: the goroutine is started and the call returns
AddItem ==
    /\ ~crashed
    /\ calls < MaxCalls
    /\ \E k \in KeyArgs, c \in ContextArgs :
         /\ procs' = [procs EXCEPT ![calls + 1] =
                         [kind |-> "writer", pc |-> "lock", method |-> k[1], url |-> k[2],
                          context |-> c]]
         /\ hist' = [hist EXCEPT ![k] =
                         IF PendingWriters(k) = {} THEN <<"pending", c>>
                         ELSE IF @ = <<"mixed", NilCtx>> THEN @
                         ELSE <<"mixed", c>>]
    /\ calls' = calls + 1
    /\ UNCHANGED <<items, MaxItems, mu, crashed>>
    /\ UNCHANGED <<routeVars, routerVars, pathVars, mvcVars>>

\* GetItem is called
GetItem ==
    /\ ~crashed
    /\ calls < MaxCalls
    /\ \E k \in KeyArgs :
         procs' = [procs EXCEPT ![calls + 1] =
                      [kind |-> "reader", pc |-> "lock", method |-> k[1], url |-> k[2],
                       ret |-> NilCtx, seen |-> <<"never", NilCtx>>, settled |-> FALSE]]
    /\ calls' = calls + 1
    /\ UNCHANGED <<items, MaxItems, mu, crashed, hist>>
    /\ UNCHANGED <<routeVars, routerVars, pathVars, mvcVars>>

\* OnTick is called
OnTick ==
    /\ ~crashed
    /\ calls < MaxCalls
    /\ procs' = [procs EXCEPT ![calls + 1] =
                    [kind |-> "ticker", pc |-> "lock", limit |-> 0, todo |-> {},
                     before |-> EmptyMap, steady |-> TRUE]]
    /\ calls' = calls + 1
    /\ UNCHANGED <<items, MaxItems, mu, crashed, hist>>
    /\ UNCHANGED <<routeVars, routerVars, pathVars, mvcVars>>

\* mutant of Lock: the goroutine goes on without waiting for the mutex
Lock_NoWait(p) ==
    /\ ~crashed
    /\ procs[p].kind # "none"
    /\ procs[p].pc = "lock"
    /\ mu' = p
    /\ procs' = [procs EXCEPT ![p].pc =
                    CASE procs[p].kind = "writer" -> "store"
                      [] procs[p].kind = "reader" -> "read"
                      [] OTHER -> "check"]
    /\ UNCHANGED <<items, MaxItems, calls, crashed, hist>>
    /\ UNCHANGED <<routeVars, routerVars, pathVars, mvcVars>>

\* mc.mu.Lock() of any goroutine: it waits until the mutex is free
Lock(p) ==
    /\ ~crashed
    /\ procs[p].kind # "none"
    /\ procs[p].pc = "lock"
    /\ mu = 0
    /\ mu' = p
    /\ procs' = [procs EXCEPT ![p].pc =
                    CASE procs[p].kind = "writer" -> "store"
                      [] procs[p].kind = "reader" -> "read"
                      [] OTHER -> "check"]
    /\ UNCHANGED <<items, MaxItems, calls, crashed, hist>>
    /\ UNCHANGED <<routeVars, routerVars, pathVars, mvcVars>>

\* mc.mu.Unlock() of any goroutine, which then ends or returns
Unlock(p) ==
    /\ ~crashed
    /\ procs[p].kind # "none"
    /\ procs[p].pc = "unlock"
    /\ mu' = 0
    /\ procs' = [procs EXCEPT ![p] = NoProc]
    /\ UNCHANGED <<items, MaxItems, calls, crashed, hist>>
    /\ UNCHANGED <<routeVars, routerVars, pathVars, mvcVars>>

\* the goroutine of AddItem: mc.items[method][url] = context.  An assignment
\* to an entry of a nil map panics
WriterStore(p) ==
    /\ ~crashed
    /\ procs[p].kind = "writer"
    /\ procs[p].pc = "store"
    /\ LET m == procs[p].method
           u == procs[p].url
       IN  IF m \in DOMAIN items
           THEN /\ items' = StoreItem(items, m, u, procs[p].context)
                /\ procs' = [procs EXCEPT ![p].pc = "unlock"]
                /\ hist' = [hist EXCEPT ![<<m, u>>] =
                               IF @ = <<"pending", procs[p].context>>
                               THEN <<"stored", procs[p].context>>
                               ELSE <<"mixed", @[2]>>]
                /\ UNCHANGED crashed
           ELSE /\ crashed' = TRUE
                /\ UNCHANGED <<items, procs, hist>>
    /\ UNCHANGED <<MaxItems, mu, calls>>
    /\ UNCHANGED <<routeVars, routerVars, pathVars, mvcVars>>

\* GetItem: ctx := mc.items[method][url]
ReaderRead(p) ==
    /\ ~crashed
    /\ procs[p].kind = "reader"
    /\ procs[p].pc = "read"
    /\ LET key == <<procs[p].method, procs[p].url>>
       IN  procs' = [procs EXCEPT ![p].pc = "unlock",
                                  ![p].ret = Lookup(items, key[1], key[2]),
                                  ![p].seen = hist[key],
                                  ![p].settled = (PendingWriters(key) = {})]
    /\ UNCHANGED <<items, MaxItems, mu, calls, crashed, hist>>
    /\ UNCHANGED <<routeVars, routerVars, pathVars, mvcVars>>

\* OnTick: if mc.MaxItems == 0 { mc.resetBag() } else the loop over the buckets
\* starts.  For the history a tick ends every round trip under way; the full
\* flush marks the keys whose writes had all completed
TickerCheck(p) ==
    /\ ~crashed
    /\ procs[p].kind = "ticker"
    /\ procs[p].pc = "check"
    /\ IF MaxItems = 0
       THEN /\ items' = resetBag(items)
            /\ procs' = [procs EXCEPT ![p].pc = "unlock"]
            /\ hist' = [k \in CacheKeys |->
                           IF hist[k][1] = "never" THEN hist[k]
                           ELSE IF PendingWriters(k) = {} THEN <<"flushed", NilCtx>>
                           ELSE <<"mixed", NilCtx>>]
       ELSE /\ procs' = [procs EXCEPT ![p].pc = "range", ![p].limit = MaxItems,
                                      ![p].todo = DOMAIN items,
                                      ![p].before = items]
            /\ hist' = [k \in CacheKeys |->
                           IF hist[k][1] \in {"never", "flushed"} THEN hist[k]
                           ELSE <<"mixed", NilCtx>>]
            /\ UNCHANGED items
    /\ UNCHANGED <<MaxItems, mu, calls, crashed>>
    /\ UNCHANGED <<routeVars, routerVars, pathVars, mvcVars>>

\* mutant of Reached: a bucket is cleared only when it holds more than the maximum
Reached_Over(len, limit) == len > limit

\* OnTick: len(v) >= mc.MaxItems
Reached(len, limit) == len >= limit

\* OnTick: one turn of  for k, v := range mc.items , in the order the map
\* gives; mc.MaxItems is read again without synchronisation with SetMaxItems,
\* so the turn sees the value read before or the value of now.  For the
\* history: before is items as the tick found it, steady that every turn so
\* far read the maximum the tick started with
TickerRange(p) ==
    /\ ~crashed
    /\ procs[p].kind = "ticker"
    /\ procs[p].pc = "range"
    /\ IF procs[p].todo = {}
       THEN /\ procs' = [procs EXCEPT ![p].pc = "unlock"]
            /\ UNCHANGED items
       ELSE \E k \in procs[p].todo, limit \in {procs[p].limit, MaxItems} :
               /\ items' = IF Reached(BucketLen(items, k), limit)
                           THEN ClearBucket(items, k) ELSE items
               /\ procs' = [procs EXCEPT ![p].todo = @ \ {k}, ![p].limit = limit,
                                          ![p].steady = @ /\ limit = procs[p].limit]
    /\ UNCHANGED <<MaxItems, mu, calls, crashed, hist>>
    /\ UNCHANGED <<routeVars, routerVars, pathVars, mvcVars>>

CacheNext ==
    \/ SetMaxItems
    \/ AddItem
    \/ GetItem
    \/ OnTick
    \/ \E p \in 1..MaxCalls :
         \/ Lock(p)
         \/ Unlock(p)
         \/ WriterStore(p)
         \/ ReaderRead(p)
         \/ TickerCheck(p)
         \/ TickerRange(p)

(***************************************************************************)
(* ROUTE PATHS (src/unnamed/part_000)                                      *)
(*                                                                         *)
(* NewRoute computes Path and FormattedPath from the template; StaticPath  *)
(* and ResolvePath read them.  Strings are sequences of one-character      *)
(* strings.                                                                *)
(***************************************************************************)
\* ParamStart and WildcardParamStart, the first characters of a named and of a
\* wildcard parameter in a node path ("/api/users/:id", "/files/*file")
ParamStart == ":"

WildcardParamStart == "*"

\* the placeholder of a formatted path
Verb == <<"%", "v">>

\* the segments a template is made of: static text, a named parameter, a
\* wildcard parameter
StaticSegs == {<<"a">>, Verb}

SegKinds == {"static", "param", "wildcard"}

Segs ==
    {[kind |-> "static", text |-> t] : t \in StaticSegs}
    \cup {[kind |-> "param", text |-> <<"p">>], [kind |-> "wildcard", text |-> <<"w">>]}

\* the templates macro.Parse accepts: a wildcard parameter only as the last
\* segment
Templates ==
    {t \in UNION {[1..k -> Segs] : k \in 0..MaxSegs} :
        \A i \in 1..Len(t) : t[i].kind = "wildcard" => i = Len(t)}

\* the texts passed to ResolvePath
ArgTexts == {<<"4">>, Verb}

ArgLists == UNION {[1..k -> ArgTexts] : k \in 0..MaxArgs}

\* strings.Join(parts, sep)
RECURSIVE Join(_, _)
Join(parts, sep) ==
    IF parts = <<>> THEN <<>>
    ELSE IF Len(parts) = 1 THEN parts[1]
    ELSE parts[1] \o sep \o Join(Tail(parts), sep)

\* strings.Index(str, sub) + 1: where sub first starts in str, 0 if nowhere
IndexOf(str, sub) ==
    LET starts == {i \in 1..(Len(str) - Len(sub) + 1) : SubSeq(str, i, i + Len(sub) - 1) = sub}
    IN  IF starts = {} THEN 0 ELSE CHOOSE i \in starts : \A j \in starts : i <= j

\* strings.Contains(str, sub)
Contains(str, sub) == IndexOf(str, sub) # 0

\* strings.Split(str, "/")
RECURSIVE Split(_)
Split(str) ==
    LET i == IndexOf(str, <<"/">>)
    IN  IF i = 0 THEN <<str>>
        ELSE <<SubSeq(str, 1, i - 1)>> \o Split(SubSeq(str, i + 1, Len(str)))

\* strings.Replace(str, old, new, 1)
ReplaceFirst(str, old, new) ==
    LET i == IndexOf(str, old)
    IN  IF i = 0 THEN str
        ELSE SubSeq(str, 1, i - 1) \o new \o SubSeq(str, i + Len(old), Len(str))

\* what fmt.Sprintf writes for a %v verb that has no operand
Missing == <<"%", "!", "v", "(", "M", "I", "S", "S", "I", "N", "G", ")">>

\* what fmt.Sprintf appends for a string operand that no verb used
Extra(operand) ==
    <<"%", "!", "(", "E", "X", "T", "R", "A", " ", "s", "t", "r", "i", "n", "g", "=">>
        \o operand \o <<")">>

\* every %v of str, from left to right, written as a verb without operand
RECURSIVE AllMissing(_)
AllMissing(str) ==
    LET i == IndexOf(str, Verb)
    IN  IF i = 0 THEN str
        ELSE SubSeq(str, 1, i - 1) \o Missing \o AllMissing(SubSeq(str, i + 2, Len(str)))

\* fmt.Sprintf(format, parameter) for a format of text and %v verbs and one
\* string operand
Sprintf(format, parameter) ==
    LET i == IndexOf(format, Verb)
    IN  IF i = 0 THEN format \o Extra(parameter)
        ELSE SubSeq(format, 1, i - 1) \o parameter
                 \o AllMissing(SubSeq(format, i + 2, Len(format)))

\* tmpl.Src, the registered path: "/user/{p}", "/assets/{w:path}"
SegSrc(seg) ==
    CASE seg.kind = "static" -> seg.text
      [] seg.kind = "param" -> <<"{">> \o seg.text \o <<"}">>
      [] OTHER -> <<"{">> \o seg.text \o <<":", "p", "a", "t", "h", "}">>

TemplateSrc(t) == <<"/">> \o Join([i \in 1..Len(t) |-> SegSrc(t[i])], <<"/">>)

\* compileRoutePathAndHandlers and cleanPath: the template as a node path,
\* "/user/:p", "/assets/*w"; the handlers pass through
SegNode(seg) ==
    CASE seg.kind = "static" -> seg.text
      [] seg.kind = "param" -> <<ParamStart>> \o seg.text
      [] OTHER -> <<WildcardParamStart>> \o seg.text

compileRoutePathAndHandlers(t) ==
    <<"/">> \o Join([i \in 1..Len(t) |-> SegNode(t[i])], <<"/">>)

\* the parts of a split path that are kept, named parameters and wildcards
\* written as %v
RECURSIVE FormattedParts(_)
FormattedParts(parts) ==
    IF parts = <<>> THEN <<>>
    ELSE LET part == parts[1]
         IN  IF Len(part) = 0 THEN FormattedParts(Tail(parts))
             ELSE IF part[1] = ParamStart \/ part[1] = WildcardParamStart
             THEN <<Verb>> \o FormattedParts(Tail(parts))
             ELSE <<part>> \o FormattedParts(Tail(parts))

\* formatPath
formatPath(path) ==
    IF Contains(path, <<ParamStart>>) \/ Contains(path, <<WildcardParamStart>>)
    THEN <<"/">> \o Join(FormattedParts(Split(path)), <<"/">>)
    ELSE path

\* StaticPath
StaticPath(src) ==
    LET bidx == IndexOf(src, <<"{">>) - 1
    IN  IF bidx = -1 \/ Len(src) <= bidx THEN src
        ELSE IF bidx = 0 THEN <<"/">>
        ELSE SubSeq(src, 1, bidx)

\* the loop of ResolvePath: for _, s := range args
RECURSIVE ReplaceEach(_, _)
ReplaceEach(formattedPath, as) ==
    IF as = <<>> THEN formattedPath
    ELSE ReplaceEach(ReplaceFirst(formattedPath, Verb, as[1]), Tail(as))

\* mutant of ResolvePath: the test for a static route is left out
ResolvePath_NoStaticTest(rpath, formattedPath, as) ==
    IF rpath # <<>> /\ rpath[Len(rpath)] = WildcardParamStart
    THEN Sprintf(formattedPath, Join(as, <<"/">>))
    ELSE ReplaceEach(formattedPath, as)

\* ResolvePath
ResolvePath(rpath, formattedPath, as) ==
    IF rpath = formattedPath THEN rpath
    ELSE IF rpath[Len(rpath)] = WildcardParamStart
    THEN Sprintf(formattedPath, Join(as, <<"/">>))
    ELSE ReplaceEach(formattedPath, as)

\* no route: what NewRoute returns with an error
NoRoute == [err |-> TRUE, Src |-> <<>>, Path |-> <<>>, FormattedPath |-> <<>>, Handlers |-> 0]

PathInit ==
    /\ template \in Templates
    /\ handlersArg \in 0..MaxMain
    /\ route = NoRoute
    /\ args = <<>>
    /\ resolved = <<>>
    /\ static = <<>>
    /\ pathOp = "none"

\* NewRoute: the template is well formed, so macro.Parse and
\* compileRoutePathAndHandlers return no error
CallNewRoute ==
    /\ pathOp = "none"
    /\ LET path == compileRoutePathAndHandlers(template)
           r    == NewRoute(Batch("m", 0, handlersArg), handlersArg, FALSE)
       IN  route' = [err |-> FALSE, Src |-> TemplateSrc(template), Path |-> path,
                     FormattedPath |-> formatPath(path), Handlers |-> r.Handlers.len]
    /\ pathOp' = "NewRoute"
    /\ UNCHANGED <<template, handlersArg, args, resolved, static>>
    /\ UNCHANGED <<routeVars, routerVars, cacheVars, mvcVars>>

CallStaticPath ==
    /\ pathOp # "none"
    /\ ~route.err
    /\ static' = StaticPath(route.Src)
    /\ pathOp' = "StaticPath"
    /\ UNCHANGED <<template, handlersArg, route, args, resolved>>
    /\ UNCHANGED <<routeVars, routerVars, cacheVars, mvcVars>>

CallResolvePath ==
    /\ pathOp # "none"
    /\ ~route.err
    /\ \E as \in ArgLists :
         /\ args' = as
         /\ resolved' = ResolvePath(route.Path, route.FormattedPath, as)
    /\ pathOp' = "ResolvePath"
    /\ UNCHANGED <<template, handlersArg, route, static>>
    /\ UNCHANGED <<routeVars, routerVars, cacheVars, mvcVars>>

PathNext == CallNewRoute \/ CallStaticPath \/ CallResolvePath

(***************************************************************************)
(* CONTROLLER ACTIVATOR (src/unnamed/part_002)                             *)
(*                                                                         *)
(* Routes are registered through Handle and HandleMany; the handler that   *)
(* handlerOf makes for a BaseController serves a request in steps.         *)
(***************************************************************************)
\* the HTTP methods, paths and function names the calls are given.  A path
\* argument is the sequence of the paths that whitespace separates in it: ""
\* is the empty sequence
HttpMethods == {"", "GET"}

PathArgs == {<<>>, <<"/a">>, <<"/b">>, <<"/a", "/b">>}

FuncNames == {"", "Get", "BeforeActivation", "AfterActivation", "BeginRequest",
              "EndRequest"}

\* a nil *router.Route: the route of no method, no path and no function; a
\* nil []*router.Route is the empty sequence
NilRoute == [method |-> "", path |-> "", name |-> ""]

\* mutant of whatReservedMethods: a base controller reserves no more names
\* than any other
whatReservedMethods_NoBase(base) ==
    [m \in {"BeforeActivation", "AfterActivation"} |-> <<>>]

\* whatReservedMethods: the reserved names, each with an empty list of routes
whatReservedMethods(base) ==
    [m \in {"BeforeActivation", "AfterActivation"}
            \cup (IF base THEN {"BeginRequest", "EndRequest"} ELSE {}) |-> <<>>]

\* isReservedMethod: the name is a key of c.routes
isReservedMethod(rs, name) == \E methodName \in DOMAIN rs : methodName = name

\* GetRoutes: the routes under the name, nil if the name is no key
GetRoutes(rs, methodName) == IF methodName \in DOMAIN rs THEN rs[methodName] ELSE <<>>

\* GetRoute: the first of them, nil if there is none
GetRoute(rs, methodName) ==
    IF Len(GetRoutes(rs, methodName)) > 0 THEN GetRoutes(rs, methodName)[1] ELSE NilRoute

\* c.app.Router.HandleMany: one route for every path, or nil when the router
\* refuses
RouterHandleMany(method, path, funcName, accept) ==
    IF accept
    THEN [i \in 1..Len(path) |-> [method |-> method, path |-> path[i], name |-> funcName]]
    ELSE <<>>

\* handleMany: the routes table and the router after the call, and what the
\* call returns
handleMany(rs, reg, method, path, funcName, override, accept) ==
    IF method = "" \/ path = <<>> \/ funcName = "" \/ isReservedMethod(rs, funcName)
    THEN [routes |-> rs, registered |-> reg, ret |-> <<>>]
    ELSE LET new == RouterHandleMany(method, path, funcName, accept)
         IN  IF new = <<>>
             THEN [routes |-> rs, registered |-> reg, ret |-> <<>>]
             ELSE [routes |-> [n \in (DOMAIN rs) \cup {funcName} |->
                                  IF n # funcName THEN rs[n]
                                  ELSE IF override \/ funcName \notin DOMAIN rs THEN new
                                  ELSE rs[n] \o new],
                   registered |-> reg \o new,
                   ret |-> new]

\* no call has been made on the activator
NoCall == [op |-> "none"]

MvcInit ==
    /\ isBase \in BOOLEAN
    /\ routes = whatReservedMethods(isBase)
    /\ registered = <<>>
    /\ handles = 0
    /\ mvcCall = NoCall
    /\ mvcRet = <<>>
    /\ reqPc = "idle"
    /\ events = <<>>
    /\ stoppedBy = "none"

\* Handle: handleMany with override, then the first route or nil
Handle ==
    /\ handles < MaxHandles
    /\ \E method \in HttpMethods, path \in PathArgs, funcName \in FuncNames,
          accept \in BOOLEAN :
         LET h == handleMany(routes, registered, method, path, funcName, TRUE, accept)
         IN  /\ routes' = h.routes
             /\ registered' = h.registered
             /\ mvcRet' = IF Len(h.ret) = 0 THEN NilRoute ELSE h.ret[1]
             /\ mvcCall' = [op |-> "Handle", method |-> method, path |-> path,
                            funcName |-> funcName, accept |-> accept,
                            routes |-> routes, registered |-> registered]
    /\ handles' = handles + 1
    /\ UNCHANGED <<isBase, reqPc, events, stoppedBy>>
    /\ UNCHANGED <<routeVars, routerVars, cacheVars, pathVars>>

\* HandleMany: handleMany with override
HandleMany ==
    /\ handles < MaxHandles
    /\ \E method \in HttpMethods, path \in PathArgs, funcName \in FuncNames,
          accept \in BOOLEAN :
         LET h == handleMany(routes, registered, method, path, funcName, TRUE, accept)
         IN  /\ routes' = h.routes
             /\ registered' = h.registered
             /\ mvcRet' = h.ret
             /\ mvcCall' = [op |-> "HandleMany", method |-> method, path |-> path,
                            funcName |-> funcName, accept |-> accept,
                            routes |-> routes, registered |-> registered]
    /\ handles' = handles + 1
    /\ UNCHANGED <<isBase, reqPc, events, stoppedBy>>
    /\ UNCHANGED <<routeVars, routerVars, cacheVars, pathVars>>

\* GetRoute is called with a function name
CallGetRoute ==
    /\ \E methodName \in FuncNames :
         /\ mvcRet' = GetRoute(routes, methodName)
         /\ mvcCall' = [op |-> "GetRoute", funcName |-> methodName]
    /\ UNCHANGED <<isBase, routes, registered, handles, reqPc, events, stoppedBy>>
    /\ UNCHANGED <<routeVars, routerVars, cacheVars, pathVars>>

\* a request reaches the handler that handlerOf returned for a registered
\* route: for a BaseController the function of lines 374-394, otherwise the
\* method handler itself
ServeRequest ==
    /\ reqPc \in {"idle", "done"}
    /\ registered # <<>>
    /\ events' = <<>>
    /\ stoppedBy' = "none"
    /\ reqPc' = IF isBase THEN "Acquire" ELSE "handler"
    /\ UNCHANGED <<isBase, routes, registered, handles, mvcCall, mvcRet>>
    /\ UNCHANGED <<routeVars, routerVars, cacheVars, pathVars>>

\* ctrl, err := c.injector.Acquire(ctx): on an error the error handler runs
\* and the function returns
Acquire ==
    /\ reqPc = "Acquire"
    /\ \E err \in BOOLEAN :
         IF err
         THEN events' = Append(events, "HandleError") /\ reqPc' = "done"
         ELSE UNCHANGED events /\ reqPc' = "BeginRequest"
    /\ UNCHANGED <<isBase, routes, registered, handles, mvcCall, mvcRet, stoppedBy>>
    /\ UNCHANGED <<routeVars, routerVars, cacheVars, pathVars>>

\* mutant of BeginRequest: the method handler is called without the test of
\* ctx.IsStopped()
BeginRequest_NoTest ==
    /\ reqPc = "BeginRequest"
    /\ events' = Append(events, "BeginRequest")
    /\ \E stops \in BOOLEAN : stoppedBy' = IF stops THEN "BeginRequest" ELSE "none"
    /\ reqPc' = "handler"
    /\ UNCHANGED <<isBase, routes, registered, handles, mvcCall, mvcRet>>
    /\ UNCHANGED <<routeVars, routerVars, cacheVars, pathVars>>

\* b.BeginRequest(ctx), which may stop the context, and the test of
\* ctx.IsStopped() after it
BeginRequest ==
    /\ reqPc = "BeginRequest"
    /\ events' = Append(events, "BeginRequest")
    /\ \E stops \in BOOLEAN :
         /\ stoppedBy' = IF stops THEN "BeginRequest" ELSE "none"
         /\ reqPc' = IF stops THEN "done" ELSE "handler"
    /\ UNCHANGED <<isBase, routes, registered, handles, mvcCall, mvcRet>>
    /\ UNCHANGED <<routeVars, routerVars, cacheVars, pathVars>>

\* handler(ctx): the controller's method runs; it may stop the context
MethodHandler ==
    /\ reqPc = "handler"
    /\ events' = Append(events, "handler")
    /\ \E stops \in BOOLEAN :
         stoppedBy' = IF stops /\ stoppedBy = "none" THEN "handler" ELSE stoppedBy
    /\ reqPc' = IF isBase THEN "EndRequest" ELSE "done"
    /\ UNCHANGED <<isBase, routes, registered, handles, mvcCall, mvcRet>>
    /\ UNCHANGED <<routeVars, routerVars, cacheVars, pathVars>>

\* b.EndRequest(ctx)
EndRequest ==
    /\ reqPc = "EndRequest"
    /\ events' = Append(events, "EndRequest")
    /\ reqPc' = "done"
    /\ UNCHANGED <<isBase, routes, registered, handles, mvcCall, mvcRet, stoppedBy>>
    /\ UNCHANGED <<routeVars, routerVars, cacheVars, pathVars>>

MvcNext ==
    \/ Handle
    \/ HandleMany
    \/ CallGetRoute
    \/ ServeRequest
    \/ Acquire
    \/ BeginRequest
    \/ MethodHandler
    \/ EndRequest

(***************************************************************************)
(* Claims about the router.                                                *)
(***************************************************************************)
\* ServeHTTP is over for the request: it returned, or a panic left it
Finished == pc \in {"returned", "panicked"}

\* find has run for the request
Found == Len(lookups) >= 1

\* tree i may serve the request: same method and, if host-scoped, same host
Eligible(i) ==
    /\ garden[i].method = req.Method
    /\ garden[i].hosts => garden[i].domain = req.Host

\* tree i is eligible and its trie holds a chain for the request
Matches(i) == Eligible(i) /\ GetBranch(garden[i], ProperKey(garden[i])) = "chain"

\* the first tree of the garden that matches, 0 if none does
FirstMatch ==
    IF \E i \in 1..Len(garden) : Matches(i)
    THEN CHOOSE i \in 1..Len(garden) : Matches(i) /\ \A j \in 1..(i - 1) : ~Matches(j)
    ELSE 0

\* the request path with its trailing slash toggled
Toggled(path) ==
    IF HasSlashSuffix(path) THEN SubSeq(path, 1, Len(path) - 1) ELSE path \o <<"/">>

\* C4: the chain that runs is the chain of the first eligible tree, in garden
\* order, whose lookup reports a match, and the not-found handler runs only
\* when no eligible tree reports a match: a host-scoped tree without a match
\* does not hide a global tree with one.
C4_FirstMatchServed ==
    Finished => /\ executed = FirstMatch
                /\ notFound > 0 => FirstMatch = 0

\* C5: in the domain router every lookup of a host-scoped tree is handed
\* Host+Path, the host in front once, and every lookup of a global tree the
\* raw Path, whatever trees come before the one that is searched.
C5_LookupPath ==
    routerType = "RouterDomain" =>
        \A k \in 1..Len(lookups) :
            lookups[k][2] = IF garden[lookups[k][1]].hosts
                            THEN req.Host \o origPath ELSE origPath

C7_NoRedirectForNonGET ==
    req.Method # MethodGET => status # 301

\* C8: a panic of a handler of the matched chain is caught at the dispatch
\* boundary: it does not leave ServeHTTP, the status 500 handler runs for the
\* request and the context goes back to the pool.
C8_PanicCaught ==
    faulted => /\ pc # "panicked"
               /\ errorCalls >= 1
               /\ pc = "returned" => (status = 500 /\ pooled)

\* processRequest is over: it returned, or a handler's panic left it
Processed == pc \in {"Put", "returned", "panicked"}

\* the outcomes of a request that hold: the chain ran, a 301 was written, the
\* not-found handler ran
Outcomes ==
    {o \in {"chain", "redirect", "notfound"} :
        \/ o = "chain" /\ executed # 0
        \/ o = "redirect" /\ status = 301
        \/ o = "notfound" /\ notFound >= 1}

\* C26: every processRequest call, of Router and of RouterDomain, ends in one
\* and only one of: the chain was executed, a 301 redirect was written, the
\* not-found handler ran (once); it returns true exactly when the chain was
\* executed; and when no tree of the garden has the method of the request the
\* not-found handler runs.
C26_OneOutcome ==
    Processed =>
        /\ Cardinality(Outcomes) = 1
        /\ notFound <= 1
        /\ pc # "panicked" => (result = "true" <=> executed # 0)
        /\ pc = "panicked" => executed # 0
        /\ (\A i \in 1..Len(garden) : garden[i].method # req.Method)
              => Outcomes = {"notfound"} /\ status = 404

\* C26 witness: a request for a method that no tree of a planted garden has
\* was answered by the not-found handler
C26_Witness ==
    /\ pc = "returned"
    /\ garden # <<>>
    /\ \A i \in 1..Len(garden) : garden[i].method # req.Method
    /\ notFound = 1
    /\ result = "false"

Answered == {p \in DOMAIN procs : procs[p].kind = "reader" /\ procs[p].pc = "unlock"}

C10_FullFlush ==
    \A p \in Answered : procs[p].seen[1] = "flushed" => procs[p].ret = NilCtx

\* C10 witness: a GetItem answers nil for a key stored before the full flush
C10_Witness ==
    \E p \in Answered : procs[p].seen[1] = "flushed" /\ procs[p].ret = NilCtx

\* the OnTick calls that went round the buckets and have not unlocked yet
Swept == {p \in DOMAIN procs : /\ procs[p].kind = "ticker"
                               /\ procs[p].pc = "unlock"
                               /\ procs[p].limit > 0}

C12_LastCallWins ==
    \A p \in Answered :
        (procs[p].seen[1] = "mixed" /\ procs[p].seen[2] # NilCtx /\ procs[p].settled)
            => procs[p].ret = procs[p].seen[2]

\* the goroutines between their Lock and the end of their Unlock: the places
\* where items is read or written
InCritical ==
    {p \in DOMAIN procs : /\ procs[p].kind # "none"
                          /\ procs[p].pc \in {"store", "read", "check", "range", "unlock"}}

\* C13: of the writer goroutines, GetItem calls and OnTick sweeps at most one
\* is at a place where it reads or writes items, and that one holds the mutex.
C13_MutualExclusion ==
    /\ \A p \in InCritical : mu = p
    /\ Cardinality(InCritical) <= 1

\* C13 witness: a writer is about to store while a reader and a tick wait for
\* the mutex
C13_Witness ==
    \E p, q, r \in DOMAIN procs :
        /\ procs[p].kind = "writer" /\ procs[p].pc = "store" /\ mu = p
        /\ procs[q].kind = "reader" /\ procs[q].pc = "lock"
        /\ procs[r].kind = "ticker" /\ procs[r].pc = "lock"

\* C25: under fair scheduling every goroutine of the cache ends: the write of
\* every AddItem call is applied and its goroutine is gone, every GetItem and
\* OnTick call returns, and the mutex is released every time it was taken.
C25_Progress ==
    /\ \A p \in 1..MaxCalls :
         (procs[p].kind # "none") ~> (procs[p].kind = "none" /\ ~crashed)
    /\ (mu # 0) ~> (mu = 0)

\* C28: in every state reached from NewMemoryRouterCache by AddItem, GetItem,
\* OnTick and SetMaxItems the cache holds a bucket for the method of every
\* AddItem call, whatever the method, so no write of AddItem faults; and
\* GetItem returns absent for a method and a path that hold nothing.
C28_BucketForEveryMethod ==
    /\ ~crashed
    /\ \A p \in 1..MaxCalls :
         /\ procs[p].kind = "writer" => procs[p].method \in DOMAIN items
         /\ (/\ procs[p].kind = "reader" /\ procs[p].pc = "unlock"
             /\ procs[p].seen[1] = "never") => procs[p].ret = NilCtx

(***************************************************************************)
(* Claims about the construction of a route and its paths.                 *)
(***************************************************************************)
\* NewRoute has returned
Constructed == pathOp # "none"

\* the template has no parameter at all
IsStatic == \A i \in 1..Len(template) : template[i].kind = "static"

\* the template has named parameters and no wildcard
IsParametric ==
    /\ \E i \in 1..Len(template) : template[i].kind = "param"
    /\ \A i \in 1..Len(template) : template[i].kind # "wildcard"

\* how many named parameters the template has among its first i segments
ParamsUpTo(i) == Cardinality({j \in 1..i : template[j].kind = "param"})

\* the path with the i-th parameter, left to right, written as the i-th
\* argument, and as an unresolved placeholder when there is no i-th argument
InOrder(as) ==
    <<"/">> \o Join([i \in 1..Len(template) |->
                        IF template[i].kind = "static" THEN template[i].text
                        ELSE IF ParamsUpTo(i) <= Len(as) THEN as[ParamsUpTo(i)]
                        ELSE Verb],
                    <<"/">>)

\* the static segments in front of the first parameter
StaticPrefix ==
    LET dyn == {i \in 1..Len(template) : template[i].kind # "static"}
        n   == IF dyn = {} THEN Len(template)
               ELSE (CHOOSE i \in dyn : \A j \in dyn : i <= j) - 1
    IN  <<"/">> \o Join([i \in 1..n |-> template[i].text], <<"/">>)

C15_StaticUnchanged ==
    (pathOp = "ResolvePath" /\ IsStatic) =>
        /\ route.Path = route.FormattedPath
        /\ resolved = route.Path

\* C15 witness: two arguments passed to a static route whose path holds the
\* text of a placeholder
C15_Witness ==
    /\ pathOp = "ResolvePath" /\ IsStatic
    /\ Len(args) = 2 /\ args[1] = <<"4">>
    /\ Contains(route.Path, Verb)
    /\ resolved = route.Path

\* C16: ResolvePath on a route with k named parameters and no wildcard, given
\* n arguments, returns the formatted path with the i-th placeholder, left to
\* right, replaced by the i-th argument verbatim for i <= min(n, k), and the
\* other placeholders left unresolved.
C16_ArgumentsInOrder ==
    (pathOp = "ResolvePath" /\ IsParametric) => resolved = InOrder(args)

\* C17: StaticPath returns the template up to its first parameter without the
\* separator in front of the parameter ("/user" for "/user/{id}"), and the
\* whole template when it has no parameter.
C17_StaticPrefix ==
    pathOp = "StaticPath" => static = StaticPrefix

\* the last segment of the template is a wildcard
IsWildcard == template # <<>> /\ template[Len(template)].kind = "wildcard"

\* the wildcard is the only parameter of the template
WildcardOnly ==
    IsWildcard /\ \A i \in 1..(Len(template) - 1) : template[i].kind = "static"

\* str ends with suffix
EndsWith(str, suffix) ==
    /\ Len(suffix) <= Len(str)
    /\ SubSeq(str, Len(str) - Len(suffix) + 1, Len(str)) = suffix

\* the static segments of the template, each followed by a slash
StaticHead ==
    <<"/">> \o Join([i \in 1..(Len(template) - 1) |-> template[i].text \o <<"/">>], <<>>)

\* C24: on a route whose last segment is a wildcard ResolvePath joins its
\* arguments with "/" and puts the joined text in the place of the wildcard:
\* the result ends with the joined arguments, no malformed placeholder is in
\* it, and when the wildcard is the only parameter the result is the static
\* segments followed by the joined arguments.
C24_WildcardJoined ==
    (pathOp = "ResolvePath" /\ IsWildcard) =>
        /\ EndsWith(resolved, Join(args, <<"/">>))
        /\ ~Contains(resolved, Missing)
        /\ WildcardOnly => resolved = StaticHead \o Join(args, <<"/">>)

(***************************************************************************)
(* Claims about the controller activator.                                  *)
(***************************************************************************)
\* the last call was Handle or HandleMany
Registering == mvcCall.op \in {"Handle", "HandleMany"}

\* the names a controller may not register
ReservedNames ==
    {"BeforeActivation", "AfterActivation"}
        \cup (IF isBase THEN {"BeginRequest", "EndRequest"} ELSE {})

\* the last call returned nil
NilReturned == mvcRet = IF mvcCall.op = "HandleMany" THEN <<>> ELSE NilRoute

\* the router holds a route of the function name
RegisteredFor(name) == \E i \in 1..Len(registered) : registered[i].name = name

\* C18: Handle or HandleMany with an empty method, an empty path, an empty
\* function name or a reserved function name returns nil, adds no route to
\* the router and leaves the routes table as it was; GetRoute of a reserved
\* name or of a name that has no route returns nil.
C18_RejectedCalls ==
    /\ (/\ Registering
        /\ \/ mvcCall.method = ""
           \/ mvcCall.path = <<>>
           \/ mvcCall.funcName = ""
           \/ mvcCall.funcName \in ReservedNames)
           => /\ NilReturned
              /\ registered = mvcCall.registered
              /\ routes = mvcCall.routes
    /\ (/\ mvcCall.op = "GetRoute"
        /\ \/ mvcCall.funcName \in ReservedNames
           \/ ~RegisteredFor(mvcCall.funcName))
           => mvcRet = NilRoute

\* a base controller with a route was asked to register BeginRequest, with a
\* method and a path the router would accept
C18_Witness ==
    /\ isBase
    /\ registered # <<>>
    /\ Registering
    /\ mvcCall.funcName = "BeginRequest"
    /\ mvcCall.method = "GET"
    /\ mvcCall.path # <<>>
    /\ mvcCall.accept
    /\ NilReturned

\* before the last call the function had routes, none of them on a path of
\* the call
HadOtherRoutes ==
    /\ mvcCall.funcName \in DOMAIN mvcCall.routes
    /\ mvcCall.routes[mvcCall.funcName] # <<>>
    /\ \A i \in 1..Len(mvcCall.registered), j \in 1..Len(mvcCall.path) :
         mvcCall.registered[i].name = mvcCall.funcName
             => mvcCall.registered[i].path # mvcCall.path[j]

\* C19: a function that already has a route may be registered on another
\* one: Handle or HandleMany with a method, a new path the router accepts and
\* the name of that function adds its routes to the router and returns them.
C19_RegisteredAgain ==
    (/\ Registering
     /\ mvcCall.method # ""
     /\ mvcCall.path # <<>>
     /\ mvcCall.accept
     /\ HadOtherRoutes)
        => /\ ~NilReturned
           /\ Len(registered) = Len(mvcCall.registered) + Len(mvcCall.path)

\* the step ran for the request
Ran(e) == \E i \in 1..Len(events) : events[i] = e

\* C20: for a BaseController every request runs BeginRequest, the method
\* handler and EndRequest in this order: the method handler has BeginRequest
\* before it; when BeginRequest stops the context neither the method handler
\* nor EndRequest runs; otherwise the finished request ran exactly
\* BeginRequest, the method handler, EndRequest, and EndRequest never runs
\* but once, right after the method handler; when Acquire fails the error
\* handler is all that runs.
C20_RequestOrder ==
    isBase =>
        /\ \A i \in 1..Len(events) :
             /\ events[i] = "handler" => (i > 1 /\ events[i - 1] = "BeginRequest")
             /\ events[i] = "EndRequest" =>
                  /\ i > 1 /\ events[i - 1] = "handler"
                  /\ \A j \in 1..Len(events) : events[j] = "EndRequest" => j = i
        /\ stoppedBy = "BeginRequest" => (~Ran("handler") /\ ~Ran("EndRequest"))
        /\ (reqPc = "done" /\ Ran("BeginRequest") /\ stoppedBy # "BeginRequest")
               => events = <<"BeginRequest", "handler", "EndRequest">>
        /\ Ran("HandleError") => events = <<"HandleError">>
        /\ (reqPc = "done" /\ ~Ran("BeginRequest")) => events = <<"HandleError">>

\* a BaseController's request is over: all three ran, and the method handler
\* had stopped the context
C20_Witness ==
    /\ isBase
    /\ reqPc = "done"
    /\ events = <<"BeginRequest", "handler", "EndRequest">>
    /\ stoppedBy = "handler"

(***************************************************************************)
(* The specifications.  Each one runs one part of the program; the other   *)
(* parts stay as they are built.                                           *)
(***************************************************************************)
\* a route as NewRoute leaves it, on which nothing is called
RouteIdle ==
    LET r == NewRoute(Batch("m", 0, 1), 1, FALSE)
    IN  /\ heap = r.heap
        /\ Handlers = r.Handlers
        /\ beginHandlers = r.beginHandlers
        /\ doneHandlers = r.doneHandlers
        /\ beginHandlerIndex = r.beginHandlerIndex
        /\ fallbackHandlerIndex = r.fallbackHandlerIndex
        /\ isSpecial = r.isSpecial
        /\ routeFault = r.fault
        /\ mainHandlers = Batch("m", 0, 1)
        /\ ret = <<>>
        /\ nBegin = 0 /\ nFallback = 0 /\ nDone = 0
        /\ builds = 0 /\ streak = 0 /\ ops = 0
        /\ lastOp = <<"NewRoute", 1>>

\* a router with an empty garden that no request has reached
RouterIdle ==
    /\ RouterInit
    /\ routerType = "Router"
    /\ garden = <<>>
    /\ PathCorrection = FALSE

\* no route is under construction
PathIdle ==
    /\ template = <<>>
    /\ handlersArg = 1
    /\ route = NoRoute
    /\ args = <<>>
    /\ resolved = <<>>
    /\ static = <<>>
    /\ pathOp = "none"

\* an activator of a plain controller on which nothing is called
MvcIdle ==
    /\ MvcInit
    /\ isBase = FALSE

\* a route is built and called; no request, no cache traffic
InitRoute == RouteInit /\ RouterIdle /\ CacheInit /\ PathIdle /\ MvcIdle

SpecRoute == InitRoute /\ [][RouteNext]_vars

\* a router is built and serves one request
InitRouter == RouterInit /\ RouteIdle /\ CacheInit /\ PathIdle /\ MvcIdle

SpecRouter == InitRouter /\ [][RouterNext]_vars

\* a cache is built and used from several goroutines
InitCache == CacheInit /\ RouteIdle /\ RouterIdle /\ PathIdle /\ MvcIdle

SpecCache == InitCache /\ [][CacheNext]_vars

\* the Go scheduler runs every goroutine that can take a step, and a goroutine
\* that waits for the mutex gets it in the end (sync.Mutex hands the lock to a
\* waiter that has starved)
CacheFairness ==
    \A p \in 1..MaxCalls :
        /\ SF_vars(Lock(p))
        /\ WF_vars(Unlock(p))
        /\ WF_vars(WriterStore(p))
        /\ WF_vars(ReaderRead(p))
        /\ WF_vars(TickerCheck(p))
        /\ WF_vars(TickerRange(p))

SpecCacheFair == InitCache /\ [][CacheNext]_vars /\ CacheFairness

\* a route is constructed and its paths are read
InitPath == PathInit /\ RouteIdle /\ RouterIdle /\ CacheInit /\ MvcIdle

SpecPath == InitPath /\ [][PathNext]_vars

\* a controller is activated, routes are registered for it and requests served
InitMvc == MvcInit /\ RouteIdle /\ RouterIdle /\ CacheInit /\ PathIdle

SpecMvc == InitMvc /\ [][MvcNext]_vars

====
